---- MODULE Spec2Model ----
(***************************************************************************)
(* Model of the travel-safety assistant's agent graph                      *)
(* (src/src/agents/research_assistant.py) and of its tool adapters         *)
(* (src/src/agents/tools.py).                                              *)
(*                                                                         *)
(* Text is modelled as a sequence of one-character strings, so that        *)
(* lower-casing, substring containment and joining are computed and not    *)
(* assumed.                                                                *)
(***************************************************************************)
EXTENDS Integers, Sequences, FiniteSets, TLC

(***************************************************************************)
(* Bounds of the model.                                                    *)
(***************************************************************************)
\* graph invocations (user requests) per conversation
MaxTurns == 2
\* largest remaining-step budget an invocation starts with
MaxBudget == 2
\* largest number of tool-call requests in one model response
MaxToolCalls == 1
\* largest number of text fragments concatenated into a classifier input
MaxWords == 2
\* adapter calls observed by the tool-adapter specification
MaxAdapterRuns == 2

(***************************************************************************)
(* Text helpers.                                                           *)
(***************************************************************************)
Upper == <<"A", "B", "C", "D", "E", "F", "G", "H", "I", "J", "K", "L", "M",
           "N", "O", "P", "Q", "R", "S", "T", "U", "V", "W", "X", "Y", "Z">>

Lowercase == <<"a", "b", "c", "d", "e", "f", "g", "h", "i", "j", "k", "l", "m",
               "n", "o", "p", "q", "r", "s", "t", "u", "v", "w", "x", "y", "z">>

\* str.lower() on one character
LowerChar(c) ==
    IF \E i \in 1..Len(Upper) : Upper[i] = c
    THEN Lowercase[CHOOSE i \in 1..Len(Upper) : Upper[i] = c]
    ELSE c

\* str.lower()
lower(s) == [i \in 1..Len(s) |-> LowerChar(s[i])]

\* Python's `needle in hay` on strings
Contains(needle, hay) ==
    \E i \in 0..(Len(hay) - Len(needle)) :
        SubSeq(hay, i + 1, i + Len(needle)) = needle

\* any(keyword in text for keyword in keywords)
AnyKeywordIn(keywords, text) ==
    \E k \in 1..Len(keywords) : Contains(keywords[k], text)

RECURSIVE Join(_, _)
\* sep.join(parts)
Join(sep, parts) ==
    IF Len(parts) = 0 THEN <<>>
    ELSE IF Len(parts) = 1 THEN parts[1]
    ELSE parts[1] \o sep \o Join(sep, Tail(parts))

(***************************************************************************)
(* Fixed texts of the supervisor.                                          *)
(***************************************************************************)
GreetingText ==
    <<"H", "e", "l", "l", "o", "!", " ", "I", "'", "m", " ", "y", "o", "u",
    "r", " ", "t", "r", "a", "v", "e", "l", " ", "s", "a", "f", "e", "t",
    "y", " ", "c", "o", "m", "p", "a", "n", "i", "o", "n", ".", " ", "I",
    "'", "m", " ", "h", "e", "r", "e", " ", "t", "o", " ", "s", "u", "p",
    "p", "o", "r", "t", " ", "y", "o", "u", " ", "a", "n", "d", " ", "h",
    "e", "l", "p", " ", "e", "n", "s", "u", "r", "e", " ", "y", "o", "u",
    "r", " ", "s", "a", "f", "e", "t", "y", " ", "d", "u", "r", "i", "n",
    "g", " ", "y", "o", "u", "r", " ", "t", "r", "a", "v", "e", "l", "s",
    ".", " ", "\n", " ", " ", " ", " ", " ", " ", " ", " ", " ", " ", " ",
    " ", " ", " ", " ", " ", " ", " ", " ", " ", "I", " ", "c", "a", "n",
    " ", "h", "e", "l", "p", " ", "y", "o", "u", " ", "w", "i", "t", "h",
    ":", "\n", " ", " ", " ", " ", " ", " ", " ", " ", " ", " ", " ", " ",
    " ", " ", " ", " ", " ", " ", " ", " ", "-", " ", "L", "o", "c", "a",
    "t", "i", "o", "n", " ", "s", "a", "f", "e", "t", "y", " ", "i", "n",
    "f", "o", "r", "m", "a", "t", "i", "o", "n", " ", "a", "n", "d", " ",
    "t", "i", "p", "s", "\n", " ", " ", " ", " ", " ", " ", " ", " ", " ",
    " ", " ", " ", " ", " ", " ", " ", " ", " ", " ", " ", "-", " ", "E",
    "m", "e", "r", "g", "e", "n", "c", "y", " ", "g", "u", "i", "d", "a",
    "n", "c", "e", " ", "a", "n", "d", " ", "r", "e", "s", "o", "u", "r",
    "c", "e", "s", "\n", " ", " ", " ", " ", " ", " ", " ", " ", " ", " ",
    " ", " ", " ", " ", " ", " ", " ", " ", " ", " ", "-", " ", "G", "e",
    "n", "e", "r", "a", "l", " ", "t", "r", "a", "v", "e", "l", " ", "s",
    "a", "f", "e", "t", "y", " ", "a", "d", "v", "i", "c", "e", " ", "a",
    "n", "d", " ", "c", "o", "m", "p", "a", "n", "i", "o", "n", "s", "h",
    "i", "p", "\n", " ", " ", " ", " ", " ", " ", " ", " ", " ", " ", " ",
    " ", " ", " ", " ", " ", " ", " ", " ", " ", "\n", " ", " ", " ", " ",
    " ", " ", " ", " ", " ", " ", " ", " ", " ", " ", " ", " ", " ", " ",
    " ", " ", "H", "o", "w", " ", "c", "a", "n", " ", "I", " ", "a", "s",
    "s", "i", "s", "t", " ", "y", "o", "u", " ", "t", "o", "d", "a", "y",
    "?", " ", "F", "e", "e", "l", " ", "f", "r", "e", "e", " ", "t", "o",
    " ", "a", "s", "k", " ", "a", "n", "y", " ", "q", "u", "e", "s", "t",
    "i", "o", "n", "s", " ", "a", "b", "o", "u", "t", " ", "y", "o", "u",
    "r", " ", "t", "r", "a", "v", "e", "l", " ", "s", "a", "f", "e", "t",
    "y", " ", "c", "o", "n", "c", "e", "r", "n", "s", ".">>

ApologyText ==
    <<"I", " ", "a", "p", "o", "l", "o", "g", "i", "z", "e", ",", " ", "b",
    "u", "t", " ", "I", " ", "n", "e", "e", "d", " ", "m", "o", "r", "e",
    " ", "s", "t", "e", "p", "s", " ", "t", "o", " ", "p", "r", "o", "c",
    "e", "s", "s", " ", "t", "h", "i", "s", " ", "r", "e", "q", "u", "e",
    "s", "t", ".", " ", "W", "o", "u", "l", "d", " ", "y", "o", "u", " ",
    "l", "i", "k", "e", " ", "m", "e", " ", "t", "o", " ", "h", "e", "l",
    "p", " ", "y", "o", "u", " ", "w", "i", "t", "h", " ", "s", "o", "m",
    "e", "t", "h", "i", "n", "g", " ", "e", "l", "s", "e", "?">>

FlaggedPrefix ==
    <<"T", "h", "i", "s", " ", "c", "o", "n", "v", "e", "r", "s", "a", "t",
    "i", "o", "n", " ", "w", "a", "s", " ", "f", "l", "a", "g", "g", "e",
    "d", " ", "f", "o", "r", " ", "u", "n", "s", "a", "f", "e", " ", "c",
    "o", "n", "t", "e", "n", "t", ":", " ">>

JoinSeparator == <<",", " ">>

emergency_keywords ==
    <<<<"e", "m", "e", "r", "g", "e", "n", "c", "y">>,
      <<"h", "e", "l", "p">>,
      <<"d", "a", "n", "g", "e", "r">>,
      <<"u", "n", "s", "a", "f", "e">>,
      <<"t", "h", "r", "e", "a", "t">>,
      <<"a", "t", "t", "a", "c", "k">>,
      <<"h", "a", "r", "a", "s", "s", "m", "e", "n", "t">>>>

location_keywords ==
    <<<<"l", "o", "c", "a", "t", "i", "o", "n">>,
      <<"p", "l", "a", "c", "e">>,
      <<"a", "r", "e", "a">>,
      <<"d", "e", "s", "t", "i", "n", "a", "t", "i", "o", "n">>,
      <<"n", "e", "i", "g", "h", "b", "o", "r", "h", "o", "o", "d">>,
      <<"r", "e", "g", "i", "o", "n">>>>

(***************************************************************************)
(* Bounded input texts: user messages, model replies, tool results and     *)
(* the classifier's category labels.                                       *)
(***************************************************************************)
T_HelpMe == <<"H", "e", "l", "p", " ", "m", "e">>


T_Hi == <<"h", "i">>

T_Sunny == <<"s", "u", "n", "n", "y">>

T_Danger == <<"D", "A", "N", "G", "E", "R", " ", "z", "o", "n", "e">>


T_Place == <<"n", "i", "c", "e", " ", "p", "l", "a", "c", "e">>

L_S1 == <<"S", "1">>

L_Hate == <<"h", "a", "t", "e">>

UserTexts == {T_HelpMe, T_Hi}

ToolTexts == {T_Sunny, T_Danger}

ModelTexts == {T_Place}

CategoryLists == {<<L_S1>>, <<L_S1, L_Hate>>}

\* fragments of classifier inputs: parts of keywords, keywords in other
\* letter cases, and text that is no keyword
W_hel == <<"h", "e", "l">>

W_p == <<"p">>

W_Are == <<"A", "r", "e">>

W_a == <<"a">>

W_x == <<"x">>

W_sp == <<" ">>

W_HELP == <<"H", "E", "L", "P">>

W_Unsafe == <<"U", "n", "S", "a", "f", "e">>

W_PLACE == <<"P", "L", "A", "C", "E">>

W_Region == <<"R", "e", "g", "i", "o", "n">>

Range(f) == {f[i] : i \in DOMAIN f}

Words ==
    Range(emergency_keywords) \cup Range(location_keywords)
    \cup {W_hel, W_p, W_Are, W_a, W_x, W_sp, W_HELP, W_Unsafe, W_PLACE, W_Region}

RECURSIVE Phrases(_)
\* the texts made of at most n fragments
Phrases(n) ==
    IF n = 0 THEN {<<>>}
    ELSE Phrases(n - 1) \cup {t \o w : t \in Phrases(n - 1), w \in Words}

ClassifierInputs == Phrases(MaxWords)

(***************************************************************************)
(* Messages and the conversation state (AgentState).                       *)
(***************************************************************************)
HumanMessage(content, id) ==
    [type |-> "human", content |-> content, tool_calls |-> <<>>, id |-> id]

AIMessage(content, tool_calls, id) ==
    [type |-> "ai", content |-> content, tool_calls |-> tool_calls, id |-> id]

ToolMessage(content, id) ==
    [type |-> "tool", content |-> content, tool_calls |-> <<>>, id |-> id]

\* no model response (the pass made no model call)
NoMessage == [type |-> "none", content |-> <<>>, tool_calls |-> <<>>, id |-> 0]

\* the `safety` key was never written
NoSafety == [safety_assessment |-> "absent", unsafe_categories |-> <<>>]

\* outputs of the safety classifier: a verdict and the violated categories
LlamaGuardOutput ==
    {[safety_assessment |-> "safe", unsafe_categories |-> <<>>]}
    \cup {[safety_assessment |-> "unsafe", unsafe_categories |-> c] :
              c \in CategoryLists}

\* tools the model asks for in the bounded responses
ToolChoice == {"Nearby_Places"}

ToolCallLists ==
    UNION {[1..n -> ToolChoice] : n \in 0..MaxToolCalls}

\* responses of the model bound to the tool set (without their id)
ModelResponses ==
    {[content |-> c, tool_calls |-> t] : c \in ModelTexts, t \in ToolCallLists}

VARIABLES
    messages,         \* AgentState["messages"]
    safety,           \* AgentState["safety"], NoSafety while absent
    remaining_steps,  \* AgentState["remaining_steps"] the next node sees
    current_agent,    \* AgentState["current_agent"], "absent" while unset
    first_run,        \* AgentState["first_run"]: "absent", "true" or "false"
    pc,               \* node the graph runs next: idle, supervisor, tools, done
    last_pass,        \* what the latest supervisor pass saw and decided
    budget,           \* remaining-step budget the invocation started with
    tool_steps,       \* tool-execution steps of the invocation
    turns,            \* invocations so far
    next_id,          \* next fresh message id
    probe,            \* classifier specification: the text classified
    persona,          \* classifier specification: determine_agent's result
    adapter,          \* adapter specification: the latest adapter call
    adapter_runs      \* adapter specification: adapter calls so far

vars == <<messages, safety, remaining_steps, current_agent, first_run, pc,
          last_pass, budget, tool_steps, turns, next_id, probe, persona,
          adapter, adapter_runs>>

graph_vars == <<messages, safety, remaining_steps, current_agent, first_run,
                pc, last_pass, budget, tool_steps, turns, next_id>>

classify_vars == <<probe, persona>>

adapter_vars == <<adapter, adapter_runs>>

Last(s) == s[Len(s)]

IsPrefix(s, t) == Len(s) <= Len(t) /\ SubSeq(t, 1, Len(s)) = s

\* variant: a messages channel without reducer, the update replaces the history
add_messages_overwrite(left, right) == right

RECURSIVE add_messages(_, _)
\* the reducer of the messages channel: a message whose id is already in the
\* history replaces that message, any other message is appended
add_messages(left, right) ==
    IF right = <<>> THEN left
    ELSE LET m == Head(right)
             merged ==
                 IF \E i \in 1..Len(left) : left[i].id = m.id
                 THEN [i \in 1..Len(left) |->
                          IF left[i].id = m.id THEN m ELSE left[i]]
                 ELSE Append(left, m)
         IN add_messages(merged, Tail(right))

\* variant: only the first category is reported
format_safety_message_first(safety_output, id) ==
    AIMessage(FlaggedPrefix \o safety_output.unsafe_categories[1], <<>>, id)

format_safety_message(safety_output, id) ==
    AIMessage(FlaggedPrefix \o Join(JoinSeparator, safety_output.unsafe_categories),
              <<>>, id)

\* variant: the text is not lower-cased before the keywords are looked up
determine_agent_case_sensitive(msgs) ==
    LET last_message == Last(msgs).content
    IN IF AnyKeywordIn(emergency_keywords, last_message) THEN "emergency"
       ELSE IF AnyKeywordIn(location_keywords, last_message) THEN "location"
       ELSE "companion"

determine_agent(msgs) ==
    LET last_message == lower(Last(msgs).content)
    IN IF AnyKeywordIn(emergency_keywords, last_message) THEN "emergency"
       ELSE IF AnyKeywordIn(location_keywords, last_message) THEN "location"
       ELSE "companion"

\* variant: an absent first_run flag counts as false
IsFirstRun_default_false(msgs, flag) == msgs = <<>> \/ flag = "true"

\* the test that sends the supervisor to the initialisation of the conversation
IsFirstRun(msgs, flag) == msgs = <<>> \/ flag \in {"absent", "true"}

\* the test on the classifier's verdict
is_unsafe(safety_output) == safety_output.safety_assessment = "unsafe"

\* variant: the budget test is one step late
out_of_steps_late(remaining, response) ==
    remaining < 1 /\ response.tool_calls # <<>>

\* variant: the budget is never tested
out_of_steps_never(remaining, response) == FALSE

\* the test on the step budget
out_of_steps(remaining, response) == remaining < 2 /\ response.tool_calls # <<>>

\* The dictionaries the supervisor returns; a key it does not return is
\* "keep".  fresh is the id given to a message built without one.
\* variant: the greeting is built as a message that is no assistant message
greeting_return_human(fresh) ==
    [messages |-> <<HumanMessage(GreetingText, fresh)>>,
     current_agent |-> "companion",
     first_run |-> "false",
     safety |-> "keep"]

greeting_return(fresh) ==
    [messages |-> <<AIMessage(GreetingText, <<>>, fresh)>>,
     current_agent |-> "companion",
     first_run |-> "false",
     safety |-> "keep"]

unsafe_return(safety_output, fresh) ==
    [messages |-> <<format_safety_message(safety_output, fresh)>>,
     current_agent |-> "keep",
     first_run |-> "keep",
     safety |-> "set"]

apology_return(response) ==
    [messages |-> <<AIMessage(ApologyText, <<>>, response.id)>>,
     current_agent |-> "keep",
     first_run |-> "keep",
     safety |-> "keep"]

\* variant: the assessment of every response is recorded
response_return_recording(response) ==
    [messages |-> <<response>>,
     current_agent |-> "keep",
     first_run |-> "keep",
     safety |-> "set"]

response_return(response) ==
    [messages |-> <<response>>,
     current_agent |-> "keep",
     first_run |-> "keep",
     safety |-> "keep"]

\* response is the model's reply, safety_output the classifier's verdict on
\* the history followed by that reply.
supervisor_return(msgs, flag, remaining, response, safety_output, fresh) ==
    IF IsFirstRun(msgs, flag) THEN greeting_return(fresh)
    ELSE IF is_unsafe(safety_output) THEN unsafe_return(safety_output, fresh)
    ELSE IF out_of_steps(remaining, response) THEN apology_return(response)
    ELSE response_return(response)

\* variant: the type of the last message is not looked at
route_next_untyped(msgs) ==
    LET last_message == Last(msgs)
    IN IF last_message.tool_calls # <<>> THEN "tools" ELSE "done"

route_next(msgs) ==
    LET last_message == Last(msgs)
    IN IF last_message.type # "ai" THEN "supervisor"
       ELSE IF last_message.tool_calls # <<>> THEN "tools"
       ELSE "done"

NoPass ==
    [ran |-> FALSE, first |-> FALSE, seen |-> 0, flag |-> "absent",
     remaining |-> 0, selected |-> "none", response |-> NoMessage,
     safety_output |-> NoSafety, calls |-> {}, emitted |-> <<>>,
     edge |-> "none"]

GraphInit ==
    /\ messages = <<>>
    /\ safety = NoSafety
    /\ remaining_steps = 0
    /\ current_agent = "absent"
    /\ first_run = "absent"
    /\ pc = "idle"
    /\ last_pass = NoPass
    /\ budget = 0
    /\ tool_steps = 0
    /\ turns = 0
    /\ next_id = 1

ClassifyIdle == probe = <<>> /\ persona = "none"

NoAdapter ==
    [tool |-> "none", requests |-> <<>>, latitudes |-> <<>>, result |-> "none",
     error |-> "none", operation |-> "none", cause |-> "none"]

AdapterIdle == adapter = NoAdapter /\ adapter_runs = 0

Init == GraphInit /\ ClassifyIdle /\ AdapterIdle

(***************************************************************************)
(* The agent graph: entry point supervisor, conditional edge route_next,   *)
(* tools -> supervisor, compiled with a checkpointer that keeps the state  *)
(* of the conversation between invocations.                                *)
(***************************************************************************)
\* A request of the client: one user message and the step budget of the run;
\* the request that opens a conversation may carry no message, and may carry
\* a value for first_run.
Invoke ==
    /\ pc \in {"idle", "done"}
    /\ turns < MaxTurns
    /\ \E input \in {<<>>} \cup {<<HumanMessage(t, next_id)>> : t \in UserTexts},
          flag \in {"keep", "true", "false"},
          limit \in 1..MaxBudget :
          /\ (input = <<>> \/ flag # "keep") => turns = 0
          /\ messages' = add_messages(messages, input)
          /\ first_run' = IF flag = "keep" THEN first_run ELSE flag
          /\ remaining_steps' = limit
          /\ budget' = limit
          /\ next_id' = next_id + Len(input)
    /\ pc' = "supervisor"
    /\ tool_steps' = 0
    /\ turns' = turns + 1
    /\ last_pass' = NoPass
    /\ UNCHANGED <<safety, current_agent, classify_vars, adapter_vars>>

\* One run of the supervisor node followed by the conditional edge.  A node
\* runs only while steps remain.  last_pass records what the pass saw (the
\* length of the history, first_run, the remaining steps), the persona it
\* selected, the calls it made, the messages it returned and the edge taken.
supervisor ==
    /\ pc = "supervisor"
    /\ remaining_steps >= 0
    /\ \E reply \in ModelResponses, safety_output \in LlamaGuardOutput :
          LET first == IsFirstRun(messages, first_run)
              response == AIMessage(reply.content, reply.tool_calls, next_id)
              ret == supervisor_return(messages, first_run, remaining_steps,
                                       response, safety_output, next_id)
          IN /\ messages' = add_messages(messages, ret.messages)
             /\ current_agent' = IF ret.current_agent = "keep"
                                 THEN current_agent ELSE ret.current_agent
             /\ first_run' = IF ret.first_run = "keep"
                             THEN first_run ELSE ret.first_run
             /\ safety' = IF ret.safety = "keep" THEN safety ELSE safety_output
             /\ pc' = route_next(messages')
             /\ last_pass' =
                    [ran |-> TRUE,
                     first |-> first,
                     seen |-> Len(messages),
                     flag |-> first_run,
                     remaining |-> remaining_steps,
                     selected |-> IF first THEN "none"
                                  ELSE determine_agent(messages),
                     response |-> IF first THEN NoMessage ELSE response,
                     safety_output |-> IF first THEN NoSafety ELSE safety_output,
                     calls |-> IF first THEN {} ELSE {"get_model", "LlamaGuard"},
                     emitted |-> ret.messages,
                     edge |-> route_next(messages')]
    /\ remaining_steps' = remaining_steps - 1
    /\ next_id' = next_id + 1
    /\ UNCHANGED <<budget, tool_steps, turns, classify_vars, adapter_vars>>

RECURSIVE tool_messages(_, _, _)
\* one tool-result message per tool call of the request
tool_messages(calls, results, id) ==
    IF calls = <<>> THEN <<>>
    ELSE <<ToolMessage(Head(results), id)>>
         \o tool_messages(Tail(calls), Tail(results), id + 1)

\* One run of the tool-execution node; its edge leads back to the supervisor.
tools ==
    /\ pc = "tools"
    /\ remaining_steps >= 0
    /\ LET calls == Last(messages).tool_calls
       IN \E results \in [1..Len(calls) -> ToolTexts] :
             /\ messages' = add_messages(messages,
                                         tool_messages(calls, results, next_id))
             /\ next_id' = next_id + Len(calls)
    /\ pc' = "supervisor"
    /\ remaining_steps' = remaining_steps - 1
    /\ tool_steps' = tool_steps + 1
    /\ UNCHANGED <<safety, current_agent, first_run, last_pass, budget, turns,
                   classify_vars, adapter_vars>>

Next == Invoke \/ supervisor \/ tools

Spec == Init /\ [][Next]_vars

\* every model, classifier and tool call returns
LiveSpec == Spec /\ WF_vars(supervisor) /\ WF_vars(tools)

(***************************************************************************)
(* determine_agent as a function of the text it is given.                  *)
(***************************************************************************)
ClassifyInit ==
    /\ GraphInit /\ AdapterIdle
    /\ probe \in ClassifierInputs
    /\ persona = "none"

Classify ==
    /\ persona = "none"
    /\ persona' = determine_agent(<<HumanMessage(probe, 1)>>)
    /\ UNCHANGED <<probe, graph_vars, adapter_vars>>

ClassifyNext == Classify

ClassifySpec == ClassifyInit /\ [][ClassifyNext]_vars

(***************************************************************************)
(* The tool adapters of tools.py.  An adapter sends its HTTP requests one  *)
(* after the other; what the network and the backend answer is the input.  *)
(*   "ok"       a JSON object with the keys the adapter reads              *)
(*   "missing"  a JSON object without them                                 *)
(*   "empty"    a JSON object whose "routes" list is empty                 *)
(*   "badloc"   a JSON object whose "loc" is not "latitude,longitude"      *)
(*   "status"   an HTTP status other than 200                              *)
(*   "badjson"  a body that response.json() cannot parse                   *)
(*   "raise"    the request itself raises                                  *)
(***************************************************************************)
Answers(url) ==
    {"ok", "missing", "badjson", "raise"}
    \cup (IF url = "get-route" THEN {"empty"} ELSE {})
    \cup (IF url = "ipinfo.io/json" THEN {"status", "badloc"} ELSE {})

\* the exception that handling this answer raises, "none" if it raises none
raised_by(url, answer) ==
    CASE answer = "raise" -> "RequestException"
      [] answer = "badjson" -> "JSONDecodeError"
      [] answer = "status" -> "ValueError"
      [] answer = "badloc" -> "ValueError"
      [] answer = "empty" -> "IndexError"
      [] answer = "missing" /\ url \in {"nearby-safe-spots", "get-route"} -> "KeyError"
      [] answer = "missing" /\ url = "ipinfo.io/json" -> "ValueError"
      [] OTHER -> "none"

RECURSIVE send_requests(_, _, _)
\* Sends urls[i], urls[i+1], ... until one raises: the requests sent and the
\* exception that ended them.
send_requests(urls, answers, i) ==
    IF i > Len(urls) THEN [sent |-> urls, cause |-> "none"]
    ELSE IF raised_by(urls[i].url, answers[i]) # "none"
    THEN [sent |-> SubSeq(urls, 1, i),
          cause |-> raised_by(urls[i].url, answers[i])]
    ELSE send_requests(urls, answers, i + 1)

\* response_json.get("latitude", "") of the geocoding answers that were read
RECURSIVE geocoded(_, _, _)
geocoded(urls, answers, n) ==
    IF n = 0 THEN <<>>
    ELSE geocoded(urls, answers, n - 1)
         \o (IF urls[n].url = "get-latitude-longitude"
             THEN <<IF answers[n] = "ok" THEN "latitude" ELSE "">>
             ELSE <<>>)

\* An adapter whose body is inside try/except Exception: the exception is
\* replaced by a ValueError whose text is the prefix followed by str(e).
guarded(tool, prefix, urls, answers) ==
    LET run == send_requests(urls, answers, 1)
        read == IF run.cause = "none" THEN Len(run.sent) ELSE Len(run.sent) - 1
    IN [tool |-> tool,
        requests |-> run.sent,
        latitudes |-> geocoded(urls, answers, read),
        result |-> IF run.cause = "none" THEN "returned" ELSE "raised",
        error |-> IF run.cause = "none" THEN "none" ELSE "ValueError",
        operation |-> IF run.cause = "none" THEN "none" ELSE prefix,
        cause |-> run.cause]

\* An adapter without try/except: the exception leaves the adapter as it is.
unguarded(tool, urls, answers) ==
    LET run == send_requests(urls, answers, 1)
        read == IF run.cause = "none" THEN Len(run.sent) ELSE Len(run.sent) - 1
    IN [tool |-> tool,
        requests |-> run.sent,
        latitudes |-> geocoded(urls, answers, read),
        result |-> IF run.cause = "none" THEN "returned" ELSE "raised",
        error |-> run.cause,
        operation |-> "none",
        cause |-> "none"]

AnswerLists(urls) ==
    {a \in [1..Len(urls) -> UNION {Answers(urls[i].url) : i \in 1..Len(urls)}] :
        \A i \in 1..Len(urls) : a[i] \in Answers(urls[i].url)}

\* a request: the endpoint and what its payload is about
Request(url, payload) == [url |-> url, payload |-> payload]

nearby_urls ==
    <<Request("get-latitude-longitude", "location"),
      Request("nearby-safe-spots", "current_location")>>

location_urls == <<Request("ipinfo.io/json", "none")>>

route_urls ==
    <<Request("get-latitude-longitude", "start"),
      Request("get-latitude-longitude", "destination"),
      Request("get-route", "origin and destination"),
      Request("route-safety", "route_steps")>>

sos_urls ==
    <<Request("get-latitude-longitude", "location"),
      Request("send-alert", "location and message")>>

get_nearby_safe_places ==
    /\ adapter_runs < MaxAdapterRuns
    /\ \E answers \in AnswerLists(nearby_urls) :
          adapter' = unguarded("get_nearby_safe_places", nearby_urls, answers)
    /\ adapter_runs' = adapter_runs + 1
    /\ UNCHANGED <<graph_vars, classify_vars>>

get_current_location ==
    /\ adapter_runs < MaxAdapterRuns
    /\ \E answers \in AnswerLists(location_urls) :
          adapter' = guarded("get_current_location",
                             "Error getting current location: ",
                             location_urls, answers)
    /\ adapter_runs' = adapter_runs + 1
    /\ UNCHANGED <<graph_vars, classify_vars>>

get_route ==
    /\ adapter_runs < MaxAdapterRuns
    /\ \E answers \in AnswerLists(route_urls) :
          adapter' = guarded("get_route", "Error getting route: ",
                             route_urls, answers)
    /\ adapter_runs' = adapter_runs + 1
    /\ UNCHANGED <<graph_vars, classify_vars>>

send_sos_alert ==
    /\ adapter_runs < MaxAdapterRuns
    /\ \E answers \in AnswerLists(sos_urls) :
          adapter' = guarded("send_sos_alert", "Error sending SOS alert: ",
                             sos_urls, answers)
    /\ adapter_runs' = adapter_runs + 1
    /\ UNCHANGED <<graph_vars, classify_vars>>

AdapterNext ==
    get_nearby_safe_places \/ get_current_location \/ get_route \/ send_sos_alert

AdapterSpec == Init /\ [][AdapterNext]_vars

(***************************************************************************)
(* Reference definitions used by the properties.                           *)
(***************************************************************************)
\* the two characters are the same letter, whatever their case
SameLetter(a, b) ==
    \/ a = b
    \/ \E i \in 1..Len(Upper) :
          \/ a = Upper[i] /\ b = Lowercase[i]
          \/ a = Lowercase[i] /\ b = Upper[i]

\* keyword occurs in text at some position, ignoring case
OccursIgnoringCase(keyword, text) ==
    \E i \in 1..Len(text) :
        /\ i + Len(keyword) - 1 <= Len(text)
        /\ \A j \in 1..Len(keyword) : SameLetter(text[i + j - 1], keyword[j])

MentionsEmergency(text) ==
    \E k \in Range(emergency_keywords) : OccursIgnoringCase(k, text)

MentionsLocation(text) ==
    \E k \in Range(location_keywords) : OccursIgnoringCase(k, text)

ReferencePersona(text) ==
    IF MentionsEmergency(text) THEN "emergency"
    ELSE IF MentionsLocation(text) THEN "location"
    ELSE "companion"

RECURSIVE CommaSeparated(_, _)
\* the first n labels, each but the first preceded by a comma and a space
CommaSeparated(labels, n) ==
    IF n = 0 THEN <<>>
    ELSE IF n = 1 THEN labels[1]
    ELSE CommaSeparated(labels, n - 1) \o <<",", " ">> \o labels[n]

\* the history the latest supervisor pass was given
SeenHistory == SubSeq(messages, 1, last_pass.seen)

\* the latest user message of a history that has one
LatestUserMessage(msgs) ==
    msgs[CHOOSE i \in 1..Len(msgs) :
            /\ msgs[i].type = "human"
            /\ \A j \in (i + 1)..Len(msgs) : msgs[j].type # "human"]

\* the latest supervisor pass went past the initialisation branch
ModelPass == last_pass.ran /\ ~last_pass.first

\* the latest pass ran short of steps with tool calls requested
ShortOfSteps ==
    /\ ModelPass
    /\ last_pass.remaining < 2
    /\ last_pass.response.tool_calls # <<>>

Flagged(msg) ==
    /\ msg.type = "ai"
    /\ msg.tool_calls = <<>>
    /\ \E labels \in CategoryLists :
          msg.content = FlaggedPrefix \o CommaSeparated(labels, Len(labels))

(***************************************************************************)
(* Properties.                                                             *)
(***************************************************************************)
\* C1 (as stated): a supervisor pass that sees fewer than 2 remaining steps
\* and gets a model response with tool calls emits the apology text and is
\* followed by no tool execution, whatever the safety classifier returned.
C1_ApologyWhateverVerdict ==
    ShortOfSteps =>
        /\ Len(last_pass.emitted) = 1
        /\ last_pass.emitted[1].content = ApologyText
        /\ last_pass.edge = "done"

\* C1 (amended): such a pass is followed by no tool execution (the edge is
\* the terminal one); it emits the apology text when the classifier did not
\* return UNSAFE, and the flagged-content message when it did.
C1_ApologyUnlessUnsafe ==
    /\ ShortOfSteps =>
          /\ last_pass.edge = "done"
          /\ Len(last_pass.emitted) = 1
          /\ last_pass.emitted[1].tool_calls = <<>>
          /\ IF last_pass.safety_output.safety_assessment = "unsafe"
             THEN Flagged(last_pass.emitted[1])
             ELSE /\ last_pass.emitted[1].type = "ai"
                  /\ last_pass.emitted[1].content = ApologyText
    /\ pc = "tools" => last_pass.remaining >= 2

C1_Witness ==
    /\ ShortOfSteps
    /\ last_pass.safety_output.safety_assessment = "safe"
    /\ Last(messages).content = ApologyText
    /\ pc = "done"

\* C2: every supervisor pass after the first turn selects the persona of the
\* latest user message of the history it was given.
C2_PersonaOfLatestUserMessage ==
    (ModelPass /\ \E i \in 1..last_pass.seen : messages[i].type = "human") =>
        last_pass.selected = ReferencePersona(LatestUserMessage(SeenHistory).content)

\* C3: when the classifier returns UNSAFE the supervisor emits one assistant
\* message, made of the fixed prefix and the category labels joined by ", ",
\* with none of the model's content or tool calls; the assessment is stored
\* and the turn ends without tool execution.
C3_UnsafeIsFlagged ==
    (ModelPass /\ last_pass.safety_output.safety_assessment = "unsafe") =>
        LET labels == last_pass.safety_output.unsafe_categories
            joined == CommaSeparated(labels, Len(labels))
        IN /\ Len(last_pass.emitted) = 1
           /\ last_pass.emitted[1].type = "ai"
           /\ last_pass.emitted[1].content = FlaggedPrefix \o joined
           /\ last_pass.emitted[1].tool_calls = <<>>
           /\ ~Contains(last_pass.response.content, last_pass.emitted[1].content)
           /\ messages = Append(SeenHistory, last_pass.emitted[1])
           /\ safety = last_pass.safety_output
           /\ last_pass.edge = "done"
           /\ pc = "done"

C3_Witness ==
    /\ ModelPass
    /\ last_pass.safety_output.safety_assessment = "unsafe"
    /\ Len(last_pass.safety_output.unsafe_categories) = 2
    /\ last_pass.response.tool_calls # <<>>
    /\ last_pass.response.content # <<>>
    /\ last_pass.remaining >= 2

\* C4: a supervisor pass given an empty history, or a first_run flag that is
\* set or absent, appends exactly the greeting, sets the persona to
\* "companion" and first_run to false, calls neither the model, the
\* classifier nor a tool, and ends the turn.
C4_FirstRunGreets ==
    (last_pass.ran /\ (last_pass.seen = 0 \/ last_pass.flag \in {"absent", "true"})) =>
        /\ last_pass.emitted = <<AIMessage(GreetingText, <<>>, next_id - 1)>>
        /\ messages = SeenHistory \o last_pass.emitted
        /\ current_agent = "companion"
        /\ first_run = "false"
        /\ last_pass.calls = {}
        /\ last_pass.edge = "done"
        /\ pc = "done"

C4_Witness ==
    /\ last_pass.ran
    /\ last_pass.seen = 0
    /\ last_pass.flag = "false"
    /\ Last(messages).content = GreetingText

\* C5: determine_agent gives "emergency" for a text that contains an
\* emergency keyword in any letter case, otherwise "location" for a text
\* that contains a location keyword, otherwise "companion".
C5_ClassifierMatchesReference ==
    persona # "none" => persona = ReferencePersona(probe)

C5_Witness ==
    /\ persona = "emergency"
    /\ MentionsLocation(probe)
    /\ ~AnyKeywordIn(emergency_keywords, probe)

\* C6: route_next decides on the last message alone: "supervisor" when it is
\* no assistant message, "tools" when it is an assistant message with tool
\* calls, "done" otherwise; the tool-execution node is entered only with such
\* a message last in the history.
C6_RouteIsThreeWay ==
    /\ messages # <<>> =>
          /\ route_next(messages) \in {"supervisor", "tools", "done"}
          /\ route_next(messages) = "supervisor"
                <=> Last(messages).type \in {"human", "tool"}
          /\ route_next(messages) = "tools"
                <=> (Last(messages).type = "ai" /\ Len(Last(messages).tool_calls) >= 1)
          /\ route_next(messages) = "done"
                <=> (Last(messages).type = "ai" /\ Len(Last(messages).tool_calls) = 0)
    /\ pc = "tools" =>
          /\ Last(messages).type = "ai"
          /\ Len(Last(messages).tool_calls) >= 1
    /\ (last_pass.ran /\ pc = "supervisor") => Last(messages).type = "tool"

C6_Witness ==
    /\ pc = "tools"
    /\ last_pass.edge = "tools"
    /\ Len(messages) >= 2

\* C7: when every call returns, a graph invocation reaches the terminal
\* edge, and it never makes more tool-execution steps than the step budget
\* it started with.
C7_InvocationTerminates ==
    /\ (pc \in {"supervisor", "tools"}) ~> (pc = "done")
    /\ [](tool_steps <= budget)

C7_Witness ==
    /\ pc = "done"
    /\ tool_steps >= 1
    /\ ShortOfSteps

\* C8 (as stated): the conversation state carries a safety assessment only
\* in the turn whose supervisor pass produced it.
C8_AssessmentOfThisTurnOnly ==
    safety # NoSafety =>
        (last_pass.ran /\ last_pass.safety_output = safety)

\* C8 (amended): an assessment stored by a turn whose response was
\* classified UNSAFE stays in the conversation state through the later
\* turns, until a later UNSAFE response replaces it.
C8_AssessmentPersists ==
    [][/\ safety # NoSafety => safety' # NoSafety
       /\ safety' # safety =>
             /\ last_pass'.ran
             /\ last_pass'.safety_output.safety_assessment = "unsafe"
             /\ safety' = last_pass'.safety_output]_vars

C8_Witness ==
    /\ safety # NoSafety
    /\ turns = 2
    /\ last_pass.ran
    /\ last_pass.safety_output.safety_assessment = "safe"

\* C9: every step of the graph leaves the messages already in the history
\* unchanged and in order, and adds messages at the end only.
C9_HistoryAppendOnly ==
    [][IsPrefix(messages, messages')]_vars

C9_Witness ==
    /\ Len(messages) >= 4
    /\ \E i \in 1..Len(messages) : messages[i].type = "tool"
    /\ Last(messages).content = ApologyText

\* C10: an adapter that fails in an HTTP request or in reading a response
\* ends with an error that names the operation and wraps the cause, having
\* sent each request once and returned nothing.
C10_AdapterErrorsAreWrapped ==
    adapter.result = "raised" =>
        /\ adapter.error = "ValueError"
        /\ adapter.operation # "none"
        /\ adapter.cause # "none"
        /\ \A i, j \in 1..Len(adapter.requests) :
              i < j => adapter.requests[i] # adapter.requests[j]

\* C11: after every supervisor pass that is not the first turn, the persona
\* key held in the conversation state is the persona the pass selected with
\* determine_agent.
C11_StoredPersonaIsSelected ==
    ModelPass => current_agent = last_pass.selected

\* C12: a supervisor step leaves an assistant message last in the history,
\* so the edge after it is never "supervisor"; in an invocation supervisor
\* and tool-execution steps alternate, the first and the last step being
\* the supervisor's.
C12_NodesAlternate ==
    /\ [](last_pass.ran =>
             /\ last_pass.edge \in {"tools", "done"}
             /\ \A i \in 1..Len(last_pass.emitted) :
                   last_pass.emitted[i].type = "ai")
    /\ [][/\ pc = "supervisor" =>
                /\ pc' \in {"tools", "done"}
                /\ Last(messages').type = "ai"
          /\ pc = "tools" => pc' = "supervisor"
          /\ pc \in {"idle", "done"} => pc' = "supervisor"
          /\ pc' = "done" => pc = "supervisor"]_vars

C12_Witness ==
    /\ pc = "done"
    /\ tool_steps = 1
    /\ last_pass.ran
    /\ last_pass.edge = "done"
    /\ ~ShortOfSteps
    /\ Last(messages).type = "ai"
    /\ messages[Len(messages) - 1].type = "tool"

TypeOK ==
    /\ pc \in {"idle", "supervisor", "tools", "done"}
    /\ first_run \in {"absent", "true", "false"}
    /\ current_agent \in {"absent", "companion", "emergency", "location"}
    /\ remaining_steps \in -1..MaxBudget

====
